---- MODULE Spec2Model ----
(***************************************************************************)
(* Model of the MongoDB workflow node (src/index.js): the batch run        *)
(* MongoDBNode.execute, the connection-target builder, the document store  *)
(* the driver calls act on, the connectivity test MongoDbCredentials.test  *)
(* and the collection lister loadOptions.getCollections.                   *)
(*                                                                         *)
(* JavaScript strings are modelled as sequences of tokens, so that         *)
(* concatenation is \o and String.prototype.includes is token membership.  *)
(* The JavaScript value undefined is the one-token string Undef.           *)
(***************************************************************************)
EXTENDS Integers, Sequences, FiniteSets, TLC

\* ------------------------------------------------------------------ bounds
MaxItems == 2        \* longest input batch
MaxRuns == 2         \* batch runs against the same store
MaxDocs == 2         \* documents the store holds at most

\* ------------------------------------------------------- JavaScript values
Undef == <<"<undefined>">>
Null == <<"<null>">>
EmptyStr == <<>>

\* JavaScript truthiness of a string-or-undefined value
Truthy(v) == v # Undef /\ v # Null /\ v # EmptyStr

\* `${v}` inside a template literal
Render(v) == IF v = Undef THEN <<"undefined">> ELSE IF v = Null THEN <<"null">> ELSE v

\* s.includes(tok)
Includes(s, tok) == \E i \in 1..Len(s) : s[i] = tok

EncodeToken(t) == IF t = "@" THEN "%40" ELSE IF t = ":" THEN "%3A" ELSE IF t = "/" THEN "%2F" ELSE t

\* encodeURIComponent(s): reserved characters are percent-encoded
encodeURIComponent(s) == [i \in 1..Len(s) |-> EncodeToken(s[i])]

\* ----------------------------------------------------- credential records
AtlasHost == <<"c0", ".mongodb.net">>
LocalHost == <<"localhost">>
GivenTarget == <<"mongodb://", "db.example", ":", "27017", "/", "app">>

Cred(ct, cs, h, p, d, u, pw, ssl) ==
  [configurationType |-> ct, connectionString |-> cs, host |-> h, port |-> p,
   database |-> d, user |-> u, password |-> pw, ssl |-> ssl]

\* the credential records a batch run is started with (Null: none selected)
BatchCredentials ==
  { Cred("connectionString", GivenTarget, Undef, Undef, Undef, Undef, Undef, FALSE),
    Cred("connectionString", EmptyStr, Undef, Undef, Undef, Undef, Undef, FALSE),
    Cred("individual", Undef, LocalHost, <<"27018">>, Undef, Undef, Undef, TRUE),
    Cred("individual", Undef, Undef, Undef, <<"app">>, Undef, Undef, FALSE),
    Cred("individual", Undef, EmptyStr, Undef, <<"app">>, Undef, Undef, FALSE) }

\* buildConnectionString raises a TypeError when host is not a string
BuildThrows(credentials) ==
  /\ credentials.configurationType # "connectionString"
  /\ credentials.host \in {Undef, Null}

TypeErrorMsg == <<"Cannot read properties of undefined (reading 'includes')">>

buildConnectionString(credentials) ==
  IF credentials.configurationType = "connectionString"
  THEN credentials.connectionString
  ELSE
    LET auth == IF Truthy(credentials.user) /\ Truthy(credentials.password)
                THEN encodeURIComponent(credentials.user) \o <<":">>
                     \o encodeURIComponent(credentials.password) \o <<"@">>
                ELSE EmptyStr
        isAtlas == Includes(credentials.host, ".mongodb.net")
        port == IF Truthy(credentials.port) THEN credentials.port ELSE <<"27017">>
        sslParam == IF credentials.ssl THEN <<"?ssl=true">> ELSE EmptyStr
    IN IF isAtlas
       THEN <<"mongodb+srv://">> \o auth \o credentials.host \o <<"/">>
            \o Render(credentials.database)
            \o <<"?", "authSource=admin", "&", "retryWrites=true", "&", "w=majority">>
       ELSE <<"mongodb://">> \o auth \o credentials.host \o <<":">> \o port
            \o <<"/">> \o Render(credentials.database) \o sslParam

\* new MongoClient(target) raises a MongoParseError for a target that is
\* not a string, has no mongodb scheme, or has an empty host
HostStart(cs) ==
  IF Includes(cs, "@") THEN 1 + (CHOOSE i \in 1..Len(cs) : cs[i] = "@") ELSE 2

ClientCtorThrows(cs) ==
  \/ cs \in {Undef, Null, EmptyStr}
  \/ cs[1] \notin {"mongodb://", "mongodb+srv://"}
  \/ Len(cs) < HostStart(cs)
  \/ cs[HostStart(cs)] \in {":", "/", "?"}

\* ------------------------------------------------------------ JSON values
\* A JSON text is a sequence of tokens; a JSON value is a record with a type
\* tag t.  JSON has no ObjectId: a parsed text never holds a value of type oid.
Tok(c) == [c |-> c]
StrLit(n) == [c |-> "str", n |-> n]      \* the string literal "<hex n>"
NumLit(n) == [c |-> "num", n |-> n]

Absent == [t |-> "absent"]
Str(n) == [t |-> "str", s |-> n]          \* the string "<hex n>"
Num(n) == [t |-> "num", n |-> n]
Oid(n) == [t |-> "oid", n |-> n]          \* the n-th ObjectId of the store
Obj(id, k, set) == [t |-> "obj", id |-> id, k |-> k, set |-> set]
Arr(elems) == [t |-> "arr", elems |-> elems]
EmptyObj == Obj(Absent, Absent, Absent)

EmptyText == <<>>
BadText == <<Tok("{"), Tok("k")>>
EmptyObjText == <<Tok("{"), Tok("}")>>
EmptyArrText == <<Tok("["), Tok("]")>>
PairText(key, lit) == <<Tok("{"), Tok(key), Tok(":"), lit, Tok("}")>>
TwoPairText(lit1, lit2) ==
  <<Tok("{"), Tok("_id"), Tok(":"), lit1, Tok(","), Tok("k"), Tok(":"), lit2, Tok("}")>>
SetText(lit) ==
  <<Tok("{"), Tok("$set"), Tok(":"), Tok("{"), Tok("k"), Tok(":"), lit, Tok("}"), Tok("}")>>
ArrOfText(objText) == <<Tok("[")>> \o objText \o <<Tok("]")>>
ScalarText == <<NumLit(1)>>

IsLit(tok) == tok.c \in {"str", "num"}
LitValue(tok) == IF tok.c = "str" THEN Str(tok.n) ELSE Num(tok.n)

IsObjectText(x) ==
  \/ x = EmptyObjText
  \/ /\ Len(x) = 5
     /\ x[1] = Tok("{") /\ x[2].c \in {"_id", "k"} /\ x[3] = Tok(":")
     /\ IsLit(x[4]) /\ x[5] = Tok("}")
  \/ /\ Len(x) = 9
     /\ x[1] = Tok("{") /\ x[2] = Tok("_id") /\ x[3] = Tok(":") /\ IsLit(x[4])
     /\ x[5] = Tok(",") /\ x[6] = Tok("k") /\ x[7] = Tok(":") /\ IsLit(x[8])
     /\ x[9] = Tok("}")
  \/ /\ Len(x) = 9
     /\ x[1] = Tok("{") /\ x[2] = Tok("$set") /\ x[3] = Tok(":") /\ x[4] = Tok("{")
     /\ x[5] = Tok("k") /\ x[6] = Tok(":") /\ IsLit(x[7]) /\ x[8] = Tok("}")
     /\ x[9] = Tok("}")

ObjectValue(x) ==
  IF x = EmptyObjText THEN EmptyObj
  ELSE IF Len(x) = 5
       THEN IF x[2].c = "_id" THEN Obj(LitValue(x[4]), Absent, Absent)
            ELSE Obj(Absent, LitValue(x[4]), Absent)
       ELSE IF x[2].c = "_id" THEN Obj(LitValue(x[4]), LitValue(x[8]), Absent)
            ELSE Obj(Absent, Absent, LitValue(x[7]))

IsArrayText(x) ==
  /\ Len(x) >= 2 /\ x[1] = Tok("[") /\ x[Len(x)] = Tok("]")
  /\ (Len(x) = 2 \/ IsObjectText(SubSeq(x, 2, Len(x) - 1)))

ArrayValue(x) ==
  IF Len(x) = 2 THEN Arr(<<>>) ELSE Arr(<<ObjectValue(SubSeq(x, 2, Len(x) - 1))>>)

IsScalarText(x) == Len(x) = 1 /\ IsLit(x[1])

\* JSON.parse(text): the value, or a SyntaxError with its diagnostic
JSONParse(x) ==
  IF IsObjectText(x) THEN [ok |-> TRUE, val |-> ObjectValue(x)]
  ELSE IF IsArrayText(x) THEN [ok |-> TRUE, val |-> ArrayValue(x)]
  ELSE IF IsScalarText(x) THEN [ok |-> TRUE, val |-> LitValue(x[1])]
  ELSE IF x = EmptyText THEN [ok |-> FALSE, diag |-> "Unexpected end of JSON input"]
  ELSE [ok |-> FALSE, diag |-> "Unexpected token"]

\* Array.isArray(v)
IsArray(v) == v.t = "arr"

\* v.toString() of an identifier: an ObjectId renders as its 24-digit hex text
IdToString(v) == IF v.t = "oid" THEN Str(v.n) ELSE v

\* a parameter value handed over by the platform: a string, or a value that
\* is already structured (typeof v !== "string")
Text(x) == [str |-> TRUE, text |-> x]
Raw(v) == [str |-> FALSE, val |-> v]

\* ----------------------------------------------------------------- errors
\* An Error object; messages are strings (sequences of tokens)
Err(name, message) == [name |-> name, message |-> message]
NewError(message) == Err("Error", message)

\* error.toString()
ErrorToString(e) == <<e.name, ": ">> \o e.message

NullVal == [t |-> "null"]
UndefVal == [t |-> "undefined"]

\* truthiness of a parsed JSON value
JsTruthy(v) == v.t \notin {"null", "undefined", "absent"} /\ ~(v.t = "num" /\ v.n = 0)

\* --------------------------------------------------------- Command Parser
\* Each Parse* operator is the part of a switch case of execute that comes
\* before the driver call: the parameters p are what getNodeParameter
\* returned for this item.  The outcome is an Error to raise, or the driver
\* call the case goes on to make.
Raise(message) == [ok |-> FALSE, error |-> NewError(message)]
Call(cmd) == [ok |-> TRUE, cmd |-> cmd]

\* typeof v === "string" ? JSON.parse(v) : v
ParseOrPass(v) == IF v.str THEN JSONParse(v.text) ELSE [ok |-> TRUE, val |-> v.val]

\* variant: the limit is applied to the cursor before the skip
FindModsLimitFirst(projection, sort, skip, limit) ==
  (IF JsTruthy(projection) THEN <<[m |-> "project", arg |-> projection]>> ELSE <<>>)
  \o (IF JsTruthy(sort) THEN <<[m |-> "sort", arg |-> sort]>> ELSE <<>>)
  \o (IF limit > 0 THEN <<[m |-> "limit", n |-> limit]>> ELSE <<>>)
  \o (IF skip > 0 THEN <<[m |-> "skip", n |-> skip]>> ELSE <<>>)

\* variant: the limit is handed to the cursor whatever it is
FindModsLimitAlways(projection, sort, skip, limit) ==
  (IF JsTruthy(projection) THEN <<[m |-> "project", arg |-> projection]>> ELSE <<>>)
  \o (IF JsTruthy(sort) THEN <<[m |-> "sort", arg |-> sort]>> ELSE <<>>)
  \o (IF skip > 0 THEN <<[m |-> "skip", n |-> skip]>> ELSE <<>>)
  \o <<[m |-> "limit", n |-> limit]>>

FindMods(projection, sort, skip, limit) ==
  (IF JsTruthy(projection) THEN <<[m |-> "project", arg |-> projection]>> ELSE <<>>)
  \o (IF JsTruthy(sort) THEN <<[m |-> "sort", arg |-> sort]>> ELSE <<>>)
  \o (IF skip > 0 THEN <<[m |-> "skip", n |-> skip]>> ELSE <<>>)
  \o (IF limit > 0 THEN <<[m |-> "limit", n |-> limit]>> ELSE <<>>)

ParseFind(p) ==
  LET limit == IF p.returnAll THEN 0 ELSE p.limit
      q == IF p.query # EmptyStr THEN JSONParse(p.query) ELSE [ok |-> TRUE, val |-> EmptyObj]
      pr == IF p.projection # EmptyStr THEN JSONParse(p.projection)
            ELSE [ok |-> TRUE, val |-> NullVal]
      so == IF p.sort # EmptyStr THEN JSONParse(p.sort) ELSE [ok |-> TRUE, val |-> NullVal]
  IN IF ~q.ok THEN Raise(<<"Invalid query JSON: ", q.diag>>)
     ELSE IF ~pr.ok THEN Raise(<<"Invalid projection JSON: ", pr.diag>>)
     ELSE IF ~so.ok THEN Raise(<<"Invalid sort JSON: ", so.diag>>)
     ELSE Call([kind |-> "find", filter |-> q.val,
                mods |-> FindMods(pr.val, so.val, p.skip, limit)])

\* variant: the parsed documents value is handed to insertMany as it is
ParseInsertNoArrayCheck(p) ==
  IF p.insertMode = "single"
  THEN LET d == ParseOrPass(p.document)
       IN IF ~d.ok THEN Raise(<<"Invalid document JSON: ", d.diag>>)
          ELSE Call([kind |-> "insertOne", doc |-> d.val])
  ELSE LET d == ParseOrPass(p.documents)
       IN IF ~d.ok THEN Raise(<<"Invalid documents JSON: ", d.diag>>)
          ELSE Call([kind |-> "insertMany", docs |-> d.val])

ParseInsert(p) ==
  IF p.insertMode = "single"
  THEN LET d == ParseOrPass(p.document)
       IN IF ~d.ok THEN Raise(<<"Invalid document JSON: ", d.diag>>)
          ELSE Call([kind |-> "insertOne", doc |-> d.val])
  ELSE LET d == ParseOrPass(p.documents)
       IN IF ~d.ok THEN Raise(<<"Invalid documents JSON: ", d.diag>>)
          ELSE IF ~IsArray(d.val) THEN Raise(<<"Documents must be an array">>)
          ELSE Call([kind |-> "insertMany", docs |-> d.val])

\* variant: the update call is made once the filter has parsed
ParseUpdateFilterOnly(p) ==
  LET f == ParseOrPass(p.filter)
      u == ParseOrPass(p.update)
  IN IF ~f.ok THEN Raise(<<"Invalid filter JSON: ", f.diag>>)
     ELSE Call([kind |-> IF p.updateMode = "updateOne" THEN "updateOne" ELSE "updateMany",
                filter |-> f.val, update |-> IF u.ok THEN u.val ELSE EmptyObj,
                upsert |-> p.upsert])

ParseUpdate(p) ==
  LET f == ParseOrPass(p.filter)
      u == ParseOrPass(p.update)
  IN IF ~f.ok THEN Raise(<<"Invalid filter JSON: ", f.diag>>)
     ELSE IF ~u.ok THEN Raise(<<"Invalid update JSON: ", u.diag>>)
     ELSE Call([kind |-> IF p.updateMode = "updateOne" THEN "updateOne" ELSE "updateMany",
                filter |-> f.val, update |-> u.val, upsert |-> p.upsert])

ParseDelete(p) ==
  LET f == ParseOrPass(p.deleteFilter)
  IN IF ~f.ok THEN Raise(<<"Invalid filter JSON: ", f.diag>>)
     ELSE Call([kind |-> IF p.deleteMode = "deleteOne" THEN "deleteOne" ELSE "deleteMany",
                filter |-> f.val])

ParseAggregate(p) ==
  LET pl == ParseOrPass(p.pipeline)
  IN IF ~pl.ok THEN Raise(<<"Invalid pipeline JSON: ", pl.diag>>)
     ELSE IF ~IsArray(pl.val) THEN Raise(<<"Pipeline must be an array">>)
     ELSE Call([kind |-> "aggregate", pipeline |-> pl.val])

\* the switch (operation) of execute, up to the driver call
ParseItem(op, p) ==
  CASE op = "find" -> ParseFind(p)
    [] op = "insert" -> ParseInsert(p)
    [] op = "update" -> ParseUpdate(p)
    [] op = "delete" -> ParseDelete(p)
    [] op = "aggregate" -> ParseAggregate(p)
    [] OTHER -> Raise(<<"Unknown operation: ", op>>)

\* ------------------------------------------------------ the document store
\* What the driver calls of execute act on: one collection, a sequence of
\* documents [id, k] in insertion order.  Identifiers compare by type and
\* value: the ObjectId n and the string "<hex n>" are different values.
MaxOid == 2          \* ObjectIds the store generates at most

Doc(id, k) == [id |-> id, k |-> k]

IsPlainObj(v) == v.t = "obj" /\ v.set = Absent

Matches(d, f) == (f.id = Absent \/ f.id = d.id) /\ (f.k = Absent \/ f.k = d.k)

Select(s, f) == SelectSeq(s, LAMBDA d : Matches(d, f))

KRank(d) == IF d.k.t = "num" THEN d.k.n ELSE 0

InsertSorted(d, s) ==
  LET c == Cardinality({j \in 1..Len(s) : KRank(s[j]) <= KRank(d)})
  IN SubSeq(s, 1, c) \o <<d>> \o SubSeq(s, c + 1, Len(s))

RECURSIVE SortByK(_)
SortByK(s) ==
  IF s = <<>> THEN <<>> ELSE InsertSorted(s[Len(s)], SortByK(SubSeq(s, 1, Len(s) - 1)))

HasMod(mods, m) == \E i \in 1..Len(mods) : mods[i].m = m
ModOf(mods, m) == mods[CHOOSE i \in 1..Len(mods) : mods[i].m = m]
Min(a, b) == IF a <= b THEN a ELSE b

\* cursor.toArray() of a find cursor: filter, sort, skip, limit, projection
FindDocs(s, filter, mods) ==
  LET matched == Select(s, filter)
      sorted == IF HasMod(mods, "sort") /\ ModOf(mods, "sort").arg.k # Absent
                THEN SortByK(matched) ELSE matched
      skipped == IF HasMod(mods, "skip")
                 THEN SubSeq(sorted, ModOf(mods, "skip").n + 1, Len(sorted)) ELSE sorted
      limited == IF HasMod(mods, "limit")
                 THEN SubSeq(skipped, 1, Min(ModOf(mods, "limit").n, Len(skipped)))
                 ELSE skipped
  IN IF HasMod(mods, "project") /\ ModOf(mods, "project").arg.k = Num(0)
     THEN [i \in 1..Len(limited) |-> Doc(limited[i].id, Absent)]
     ELSE limited

\* the arguments the server accepts for each command
CmdValid(cmd) ==
  CASE cmd.kind = "find" ->
         /\ IsPlainObj(cmd.filter)
         /\ \A i \in 1..Len(cmd.mods) :
              cmd.mods[i].m \in {"project", "sort"} => IsPlainObj(cmd.mods[i].arg)
    [] cmd.kind = "insertOne" -> IsPlainObj(cmd.doc)
    [] cmd.kind = "insertMany" ->
         /\ cmd.docs.elems # <<>>
         /\ \A i \in 1..Len(cmd.docs.elems) : IsPlainObj(cmd.docs.elems[i])
    [] cmd.kind \in {"updateOne", "updateMany"} ->
         /\ IsPlainObj(cmd.filter)
         /\ cmd.update.t = "obj" /\ cmd.update.set # Absent
         /\ cmd.update.id = Absent /\ cmd.update.k = Absent
    [] cmd.kind \in {"deleteOne", "deleteMany"} -> IsPlainObj(cmd.filter)
    [] cmd.kind = "aggregate" -> cmd.pipeline.elems = <<>>

ServerError(message) == [ok |-> FALSE, error |-> Err("MongoServerError", message)]
Reply(result, s, n) == [ok |-> TRUE, result |-> result, store |-> s, nextOid |-> n]

HasId(s, id) == \E i \in 1..Len(s) : s[i].id = id

\* insert one document; the store generates an ObjectId when it has no _id
StoreInsert(s, n, doc) ==
  LET id == IF doc.id # Absent THEN doc.id ELSE Oid(n)
  IN IF Len(s) >= MaxDocs \/ (doc.id = Absent /\ n > MaxOid)
     THEN ServerError(<<"quota exceeded">>)
     ELSE IF HasId(s, id) THEN ServerError(<<"E11000 duplicate key error">>)
     ELSE Reply([insertedId |-> id, acknowledged |-> TRUE],
                Append(s, Doc(id, doc.k)), IF doc.id = Absent THEN n + 1 ELSE n)

FirstMatch(s, f) == CHOOSE i \in 1..Len(s) : Matches(s[i], f) /\ \A j \in 1..(i - 1) : ~Matches(s[j], f)

StoreUpdate(s, n, cmd) ==
  LET f == cmd.filter
      hit == {i \in 1..Len(s) : Matches(s[i], f)}
      target == IF cmd.kind = "updateOne" /\ hit # {} THEN {FirstMatch(s, f)} ELSE hit
      changed == {i \in target : s[i].k # cmd.update.set}
      s2 == [i \in 1..Len(s) |-> IF i \in target THEN Doc(s[i].id, cmd.update.set) ELSE s[i]]
  IN IF hit = {} /\ cmd.upsert
     THEN LET ins == StoreInsert(s, n, Obj(f.id, Absent, Absent))
          IN IF ~ins.ok THEN ins
             ELSE Reply([matchedCount |-> 0, modifiedCount |-> 0,
                         upsertedId |-> ins.result.insertedId, upsertedCount |-> 1,
                         acknowledged |-> TRUE],
                        [i \in 1..Len(ins.store) |->
                           IF i = Len(ins.store) THEN Doc(ins.store[i].id, cmd.update.set)
                           ELSE ins.store[i]],
                        ins.nextOid)
     ELSE Reply([matchedCount |-> Cardinality(target), modifiedCount |-> Cardinality(changed),
                 upsertedId |-> NullVal, upsertedCount |-> 0, acknowledged |-> TRUE], s2, n)

\* variant: a delete that matches no document is an error
StoreDeleteRejectsNoMatch(s, n, cmd) ==
  LET f == cmd.filter
      hit == {i \in 1..Len(s) : Matches(s[i], f)}
      target == IF cmd.kind = "deleteOne" /\ hit # {} THEN {FirstMatch(s, f)} ELSE hit
      keep == {i \in 1..Len(s) : i \notin target}
      Rank(i) == Cardinality({j \in keep : j <= i})
      s2 == [r \in 1..Cardinality(keep) |-> s[CHOOSE i \in keep : Rank(i) = r]]
  IN IF hit = {} THEN ServerError(<<"no document matches the filter">>)
     ELSE Reply([deletedCount |-> Cardinality(target), acknowledged |-> TRUE], s2, n)

StoreDelete(s, n, cmd) ==
  LET f == cmd.filter
      hit == {i \in 1..Len(s) : Matches(s[i], f)}
      target == IF cmd.kind = "deleteOne" /\ hit # {} THEN {FirstMatch(s, f)} ELSE hit
      keep == {i \in 1..Len(s) : i \notin target}
      Rank(i) == Cardinality({j \in keep : j <= i})
      s2 == [r \in 1..Cardinality(keep) |-> s[CHOOSE i \in keep : Rank(i) = r]]
  IN Reply([deletedCount |-> Cardinality(target), acknowledged |-> TRUE], s2, n)

\* what the server does with a command it accepts
StoreExec(s, n, cmd) ==
  CASE cmd.kind = "find" -> Reply([documents |-> FindDocs(s, cmd.filter, cmd.mods)], s, n)
    [] cmd.kind = "insertOne" -> StoreInsert(s, n, cmd.doc)
    [] cmd.kind = "insertMany" ->
         LET ins == StoreInsert(s, n, cmd.docs.elems[1])
         IN IF ~ins.ok THEN ins
            ELSE Reply([insertedIds |-> <<ins.result.insertedId>>, insertedCount |-> 1,
                        acknowledged |-> TRUE], ins.store, ins.nextOid)
    [] cmd.kind \in {"updateOne", "updateMany"} -> StoreUpdate(s, n, cmd)
    [] cmd.kind \in {"deleteOne", "deleteMany"} -> StoreDelete(s, n, cmd)
    [] cmd.kind = "aggregate" -> Reply([documents |-> s], s, n)

\* -------------------------------------------------------- output entries
\* { ...item.json, <fields> }: the fields win over equally named payload keys
Merge(json, fields) == fields @@ json

\* the result fields each switch case pushes, from the driver's reply
ResultFields(cmd, res) ==
  CASE cmd.kind \in {"find", "aggregate"} ->
         [documents |-> res.documents, count |-> Len(res.documents)]
    [] cmd.kind = "insertOne" ->
         [insertedId |-> IdToString(res.insertedId), acknowledged |-> res.acknowledged]
    [] cmd.kind = "insertMany" ->
         [insertedIds |-> [i \in 1..Len(res.insertedIds) |-> IdToString(res.insertedIds[i])],
          insertedCount |-> res.insertedCount, acknowledged |-> res.acknowledged]
    [] cmd.kind \in {"updateOne", "updateMany"} ->
         [matchedCount |-> res.matchedCount, modifiedCount |-> res.modifiedCount,
          upsertedId |-> IF res.upsertedId = NullVal THEN UndefVal
                         ELSE IdToString(res.upsertedId),
          upsertedCount |-> res.upsertedCount, acknowledged |-> res.acknowledged]
    [] cmd.kind \in {"deleteOne", "deleteMany"} ->
         [deletedCount |-> res.deletedCount, acknowledged |-> res.acknowledged]

SuccessEntry(item, cmd, res) == [json |-> Merge(item.json, ResultFields(cmd, res))]

\* variant: the error entry is built without the item's payload
ErrorEntryDropsPayload(item, e) ==
  [json |-> [error |-> TRUE, errorMessage |-> e.message, errorDetails |-> ErrorToString(e)]]

\* variant: the error entry carries a message made for the user
ErrorEntryRewordsMessage(item, e) ==
  [json |-> Merge(item.json, [error |-> TRUE, errorMessage |-> <<"The command failed.">>,
                              errorDetails |-> ErrorToString(e)])]

ErrorEntry(item, e) ==
  [json |-> Merge(item.json, [error |-> TRUE, errorMessage |-> e.message,
                              errorDetails |-> ErrorToString(e)])]

\* ------------------------------------------------------------ the inputs
EmptyJson == [key \in {} |-> 0]
Item(json) == [json |-> json]
P1 == [x |-> 1]
P2 == [x |-> 2, count |-> 9]

\* inputData of execute: main is absent, an empty list, or holds one batch
RECURSIVE Batches(_)
Batches(n) ==
  IF n = 0 THEN {<<>>}
  ELSE LET shorter == Batches(n - 1)
       IN shorter \cup {Append(b, Item(IF Len(b) = 0 THEN P1 ELSE P2)) :
                          b \in {c \in shorter : Len(c) = n - 1}}

Inputs ==
  {[main |-> "absent", items |-> <<>>], [main |-> "empty", items |-> <<>>]}
  \cup {[main |-> "given", items |-> b] : b \in Batches(MaxItems)}

\* const items = inputData.main?.[0] || []
InputItems(inputData) == IF inputData.main = "given" THEN inputData.items ELSE <<>>

\* variant: no synthetic item for an empty batch
ItemsToProcessAsGiven(items) == items

\* items.length > 0 ? items : [{ json: {} }]
ItemsToProcess(items) == IF Len(items) > 0 THEN items ELSE <<Item(EmptyJson)>>

NoCredentials == [configurationType |-> "<none>"]

Operations == {"find", "insert", "update", "delete", "aggregate", "merge"}

FindParams ==
  [query : {EmptyText, BadText, EmptyArrText, PairText("_id", StrLit(1)),
            PairText("k", NumLit(1))},
   projection : {EmptyText, BadText, EmptyArrText, PairText("k", NumLit(0))},
   sort : {EmptyText, BadText, EmptyArrText, PairText("k", NumLit(1))},
   returnAll : BOOLEAN, limit : {0, 1}, skip : {0, 1}]

DocTexts == {Text(EmptyText), Text(BadText), Text(EmptyArrText),
             Text(PairText("k", NumLit(1))), Text(TwoPairText(StrLit(1), NumLit(2))),
             Raw(Obj(Absent, Num(2), Absent))}

InsertParams ==
  [insertMode : {"single"}, document : DocTexts]
  \cup [insertMode : {"multiple"},
        documents : {Text(BadText), Text(EmptyObjText), Text(ScalarText),
                     Text(EmptyArrText), Text(ArrOfText(PairText("k", NumLit(1))))}]

FilterTexts == {Text(EmptyText), Text(BadText), Text(EmptyArrText), Text(EmptyObjText),
                Text(PairText("k", NumLit(1))), Text(PairText("_id", StrLit(1)))}

UpdateParams ==
  [updateMode : {"updateOne", "updateMany"}, filter : FilterTexts,
   update : {Text(BadText), Text(EmptyArrText), Text(SetText(NumLit(2))),
             Text(PairText("k", NumLit(2)))},
   upsert : BOOLEAN]

DeleteParams == [deleteMode : {"deleteOne", "deleteMany"}, deleteFilter : FilterTexts]

AggregateParams ==
  [pipeline : {Text(BadText), Text(EmptyObjText), Text(EmptyArrText),
               Text(ArrOfText(PairText("k", NumLit(1)))), Raw(Arr(<<>>))}]

\* what getNodeParameter can return for the command parameters of the node
ParamsOf(op) ==
  CASE op = "find" -> FindParams
    [] op = "insert" -> InsertParams
    [] op = "update" -> UpdateParams
    [] op = "delete" -> DeleteParams
    [] op = "aggregate" -> AggregateParams
    [] OTHER -> {[none |-> TRUE]}

\* failures of the driver calls
ConnectErrors ==
  {Err("MongoServerSelectionError", <<"connect ", "ECONNREFUSED", " 127.0.0.1:27017">>)}
CommandErrors ==
  {Err("MongoNetworkError", <<"connection ", "closed">>),
   Err("MongoServerError", <<"not authorized", " on app to execute command">>)}
CloseErrors == {Err("MongoError", <<"close failed">>)}
CtorError == Err("MongoParseError", <<"Invalid scheme">>)

\* ------------------------------------------------------------- the state
NoError == Err("<none>", <<>>)
NoCmd == [kind |-> "<none>"]
NoOutput == [main |-> "<none>"]
NoParams == [read |-> FALSE]

VARIABLES
  run,              \* number of the current batch run
  pc,               \* position of execute
  inputData,        \* argument of execute
  continueOnFail,   \* this.settings.continueOnFail
  credentials,      \* what getCredentials("mongoDb") returns
  connectionString,
  operation,
  client,           \* "none", "created", "open", "closed"
  itemsToProcess,
  idx,              \* position of the for loop in itemsToProcess
  results,
  cur,              \* the driver call being awaited
  thrown,           \* error travelling through the finally block
  returned,         \* value execute returned
  raised,           \* error execute raised
  store,            \* documents of the collection
  nextOid,          \* next ObjectId of the store
  connectCalls,     \* history: calls of client.connect in this run
  closeCalls,       \* history: calls of client.close in this run
  closeOutcome,     \* history: "none", or how client.close ended: "ok", "raised"
  parsed,           \* history: items whose switch case was entered, and how it went
  issued,           \* history: items for which a driver call was made
  completed,        \* history: number of driver calls that returned or raised
  outcomes,         \* history: per item, the driver's reply or the error
  inserted,         \* history: identifiers returned by insertOne, with the document
  deleted,          \* history: filters of the deleteMany calls that completed since
                    \* the collection last changed otherwise
  params,           \* what getNodeParameter returns for the command parameters of
                    \* the node, once the run has read them
  test,             \* MongoDbCredentials.test: its position and locals
  lister            \* loadOptions.getCollections: its position and locals

vars == <<run, pc, inputData, continueOnFail, credentials, connectionString, operation,
          client, itemsToProcess, idx, results, cur, thrown, returned, raised, store,
          nextOid, connectCalls, closeCalls, closeOutcome, parsed, issued, completed,
          outcomes, inserted, deleted, params, test, lister>>

\* the variables of execute, and those of the other two entry points
batch == <<run, pc, inputData, continueOnFail, connectionString, operation, client,
           itemsToProcess, idx, results, cur, thrown, returned, raised, store, nextOid,
           connectCalls, closeCalls, closeOutcome, parsed, issued, completed, outcomes,
           inserted, deleted, params>>
others == <<test, lister>>

runInputs == <<inputData, continueOnFail, credentials>>
history == <<connectCalls, closeCalls, closeOutcome, parsed, issued, completed, outcomes,
             inserted, deleted>>

StartRun ==
  /\ pc = "start"
  /\ connectionString = Undef
  /\ operation = "<unread>"
  /\ client = "none"
  /\ itemsToProcess = <<>>
  /\ idx = 0
  /\ results = <<>>
  /\ cur = NoCmd
  /\ thrown = NoError
  /\ returned = NoOutput
  /\ raised = NoError
  /\ connectCalls = 0
  /\ closeCalls = 0
  /\ closeOutcome = "none"
  /\ parsed = <<>>
  /\ issued = <<>>
  /\ completed = 0
  /\ outcomes = <<>>
  /\ params = NoParams

\* the other two entry points before they are called
NoResult == [none |-> TRUE]
NoStatus == [version |-> Undef, host |-> Undef]
TestIdle == [pc |-> "idle", connectionString |-> Undef, client |-> "none",
             serverStatus |-> NoStatus, error |-> NoError, result |-> NoResult,
             raised |-> NoError, closeCalls |-> 0]
NoEntries == <<NoResult>>
ListerIdle == [pc |-> "idle", connectionString |-> Undef, client |-> "none",
               collections |-> <<>>, error |-> NoError, result |-> NoEntries,
               raised |-> NoError, connectCalls |-> 0, listCalls |-> 0, closeCalls |-> 0]

\* the collection as earlier inserts can have left it
SeedStores == {[store |-> <<>>, nextOid |-> 1],
               [store |-> <<Doc(Oid(1), Num(1)), Doc(Oid(2), Num(2))>>, nextOid |-> 3]}

Init ==
  /\ run = 1
  /\ inputData \in Inputs
  /\ continueOnFail \in BOOLEAN
  /\ credentials \in BatchCredentials \cup {NoCredentials}
  /\ \E seed \in SeedStores : store = seed.store /\ nextOid = seed.nextOid
  /\ inserted = {}
  /\ deleted = {}
  /\ StartRun
  /\ test = TestIdle
  /\ lister = ListerIdle

\* execute, lines 684-717: the items to process and the connection target
GetCredentials ==
  /\ pc = "start"
  /\ itemsToProcess' = ItemsToProcess(InputItems(inputData))
  /\ IF credentials = NoCredentials
     THEN /\ raised' = NewError(<<"Failed to get credentials: ",
                                  "MongoDB credentials are required. Please select credentials in the Authentication field.">>)
          /\ pc' = "failed"
          /\ UNCHANGED connectionString
     ELSE IF BuildThrows(credentials)
     THEN /\ raised' = NewError(<<"Failed to get credentials: ">> \o TypeErrorMsg)
          /\ pc' = "failed"
          /\ UNCHANGED connectionString
     ELSE /\ connectionString' = buildConnectionString(credentials)
          /\ pc' = "params"
          /\ UNCHANGED raised
  /\ UNCHANGED <<run, runInputs, operation, client, idx, results, cur, thrown, returned,
                 store, nextOid, history, params, others>>

\* execute, lines 719-736: operation and collection are read, the client is made
CreateClient ==
  /\ pc = "params"
  /\ \E op \in Operations : operation' = op
  /\ IF ClientCtorThrows(connectionString)
     THEN /\ raised' = CtorError
          /\ pc' = "failed"
          /\ UNCHANGED client
     ELSE /\ client' = "created"
          /\ pc' = "connect"
          /\ UNCHANGED raised
  /\ UNCHANGED <<run, runInputs, connectionString, itemsToProcess, idx, results, cur,
                 thrown, returned, store, nextOid, history, params, others>>

\* variant: a connect failure leaves execute without the finally block
ConnectFailureSkipsClose ==
  /\ pc = "connect"
  /\ connectCalls' = connectCalls + 1
  /\ \/ /\ client' = "open"
        /\ idx' = 1
        /\ pc' = IF Len(itemsToProcess) = 0 THEN "close" ELSE "item"
        /\ UNCHANGED <<thrown, raised>>
     \/ /\ \E e \in ConnectErrors : raised' = e
        /\ pc' = "failed"
        /\ UNCHANGED <<client, idx, thrown>>
  /\ UNCHANGED <<run, runInputs, connectionString, operation, itemsToProcess, results, cur,
                 returned, store, nextOid, closeCalls, closeOutcome, parsed, issued,
                 completed, outcomes, inserted, deleted, params, others>>

\* await client.connect()
Connect ==
  /\ pc = "connect"
  /\ connectCalls' = connectCalls + 1
  /\ \/ /\ client' = "open"
        /\ idx' = 1
        /\ pc' = IF Len(itemsToProcess) = 0 THEN "close" ELSE "item"
        /\ UNCHANGED thrown
     \/ /\ \E e \in ConnectErrors : thrown' = e
        /\ pc' = "close"
        /\ UNCHANGED <<client, idx>>
  /\ UNCHANGED <<run, runInputs, connectionString, operation, itemsToProcess, results, cur,
                 returned, raised, store, nextOid, closeCalls, closeOutcome, parsed, issued,
                 completed, outcomes, inserted, deleted, params, others>>

\* variant: after the last item execute returns without the finally block
AfterItemSkipsClose == IF idx + 1 > Len(itemsToProcess) THEN "done" ELSE "item"

\* the position after the body of the for loop has ended for item idx
AfterItem == IF idx + 1 > Len(itemsToProcess) THEN "close" ELSE "item"

\* variant: under fail-fast the loop goes on with the next item
ItemFailsKeepsGoing(e) ==
  /\ outcomes' = Append(outcomes, [ok |-> FALSE, error |-> e])
  /\ idx' = idx + 1
  /\ pc' = AfterItem
  /\ IF continueOnFail
     THEN /\ results' = Append(results, ErrorEntry(itemsToProcess[idx], e))
          /\ UNCHANGED thrown
     ELSE /\ thrown' = e
          /\ UNCHANGED results

\* variant: a failed item is tried again
ItemFailsRetries(e) ==
  /\ outcomes' = Append(outcomes, [ok |-> FALSE, error |-> e])
  /\ pc' = "item"
  /\ UNCHANGED <<results, idx, thrown>>

\* variant: under fail-fast the error leaves execute past the finally block
ItemFailsSkipsClose(e) ==
  /\ outcomes' = Append(outcomes, [ok |-> FALSE, error |-> e])
  /\ IF continueOnFail
     THEN /\ results' = Append(results, ErrorEntry(itemsToProcess[idx], e))
          /\ idx' = idx + 1
          /\ pc' = AfterItem
          /\ UNCHANGED thrown
     ELSE /\ thrown' = e
          /\ pc' = "failed"
          /\ UNCHANGED <<results, idx>>

\* catch (error) of the loop body, lines 986-1001
ItemFails(e) ==
  /\ outcomes' = Append(outcomes, [ok |-> FALSE, error |-> e])
  /\ IF continueOnFail
     THEN /\ results' = Append(results, ErrorEntry(itemsToProcess[idx], e))
          /\ idx' = idx + 1
          /\ pc' = AfterItem
          /\ UNCHANGED thrown
     ELSE /\ thrown' = e
          /\ pc' = "close"
          /\ UNCHANGED <<results, idx>>

\* variant: the driver call is not awaited
AfterIssueNoAwait == "item"

\* await <driver call>: the loop body goes on only when the call has ended
AfterIssue == "await"

\* variant: the parameters are resolved against the item being processed
ReadParamsPerItem ==
  /\ pc = "item"
  /\ params' \in ParamsOf(operation)
  /\ pc' = "parse"
  /\ UNCHANGED <<run, runInputs, connectionString, operation, client, itemsToProcess, idx,
                 results, cur, thrown, returned, raised, store, nextOid, history, others>>

\* the switch case of item idx: its parameters are read with getNodeParameter,
\* by name alone, so that every item reads the values the node was given
ReadParams ==
  /\ pc = "item"
  /\ params' \in (IF params = NoParams THEN ParamsOf(operation) ELSE {params})
  /\ pc' = "parse"
  /\ UNCHANGED <<run, runInputs, connectionString, operation, client, itemsToProcess, idx,
                 results, cur, thrown, returned, raised, store, nextOid, history, others>>

\* the switch case of item idx from the parameters read up to its driver call
ParseStep ==
  /\ pc = "parse"
  /\ LET r == ParseItem(operation, params)
     IN /\ parsed' = Append(parsed, [item |-> idx, ok |-> r.ok])
        /\ IF r.ok
           THEN /\ cur' = r.cmd
                /\ issued' = Append(issued, idx)
                /\ pc' = AfterIssue
                /\ UNCHANGED <<results, idx, thrown, outcomes, params>>
           ELSE /\ ItemFails(r.error)
                /\ UNCHANGED <<cur, issued, params>>
  /\ UNCHANGED <<run, runInputs, connectionString, operation, client, itemsToProcess,
                 returned, raised, store, nextOid, connectCalls, closeCalls, closeOutcome,
                 completed, inserted, deleted, others>>

\* the awaited driver call returns or raises; a result is pushed
CommandReturns ==
  /\ pc = "await"
  /\ cur' = NoCmd
  /\ completed' = completed + 1
  /\ \/ /\ CmdValid(cur)
        /\ LET reply == StoreExec(store, nextOid, cur)
           IN IF reply.ok
              THEN /\ store' = reply.store
                   /\ nextOid' = reply.nextOid
                   /\ outcomes' = Append(outcomes, [ok |-> TRUE, kind |-> cur.kind,
                                                     result |-> reply.result])
                   /\ results' = Append(results,
                                        SuccessEntry(itemsToProcess[idx], cur, reply.result))
                   /\ inserted' = IF cur.kind = "insertOne"
                                  THEN inserted \cup
                                       {[id |-> IdToString(reply.result.insertedId),
                                         generated |-> cur.doc.id = Absent,
                                         doc |-> Doc(reply.result.insertedId, cur.doc.k)]}
                                  ELSE inserted
                   /\ deleted' = IF cur.kind = "deleteMany" THEN deleted \cup {cur.filter}
                                 ELSE IF cur.kind = "deleteOne" \/ reply.store = store
                                 THEN deleted
                                 ELSE {}
                   /\ idx' = idx + 1
                   /\ pc' = AfterItem
                   /\ UNCHANGED thrown
              ELSE /\ ItemFails(reply.error)
                   /\ UNCHANGED <<store, nextOid, inserted, deleted>>
     \/ /\ ~CmdValid(cur)
        /\ ItemFails(Err("MongoServerError", <<"wrong type of argument">>))
        /\ UNCHANGED <<store, nextOid, inserted, deleted>>
     \/ /\ \E e \in CommandErrors : ItemFails(e)
        /\ UNCHANGED <<store, nextOid, inserted, deleted>>
  /\ UNCHANGED <<run, runInputs, connectionString, operation, client, itemsToProcess,
                 returned, raised, connectCalls, closeCalls, closeOutcome, parsed, issued,
                 params, others>>

\* variant: after the close the results pushed so far are returned, error or not
CloseReturnsPartial ==
  /\ pc = "close"
  /\ closeCalls' = closeCalls + 1
  /\ client' = "closed"
  /\ \/ /\ closeOutcome' = "ok"
        /\ returned' = [main |-> results]
        /\ pc' = "done"
        /\ UNCHANGED raised
     \/ /\ closeOutcome' = "raised"
        /\ \E e \in CloseErrors : raised' = e
        /\ pc' = "failed"
        /\ UNCHANGED returned
  /\ UNCHANGED <<run, runInputs, connectionString, operation, itemsToProcess, idx, results,
                 cur, thrown, store, nextOid, connectCalls, parsed, issued, completed,
                 outcomes, inserted, deleted, params, others>>

\* finally { await client.close() }, then return or re-raise
Close ==
  /\ pc = "close"
  /\ closeCalls' = closeCalls + 1
  /\ client' = "closed"
  /\ \/ /\ closeOutcome' = "ok"
        /\ IF thrown = NoError
           THEN /\ returned' = [main |-> results]
                /\ pc' = "done"
                /\ UNCHANGED raised
           ELSE /\ raised' = thrown
                /\ pc' = "failed"
                /\ UNCHANGED returned
     \/ /\ closeOutcome' = "raised"
        /\ \E e \in CloseErrors : raised' = e
        /\ pc' = "failed"
        /\ UNCHANGED returned
  /\ UNCHANGED <<run, runInputs, connectionString, operation, itemsToProcess, idx, results,
                 cur, thrown, store, nextOid, connectCalls, parsed, issued, completed,
                 outcomes, inserted, deleted, params, others>>

\* execute is called again, with the store as the earlier runs left it
NextRun ==
  /\ pc \in {"done", "failed"}
  /\ run < MaxRuns
  /\ run' = run + 1
  /\ inputData' \in Inputs
  /\ UNCHANGED <<continueOnFail, credentials>>
  /\ pc' = "start"
  /\ connectionString' = Undef
  /\ operation' = "<unread>"
  /\ client' = "none"
  /\ itemsToProcess' = <<>>
  /\ idx' = 0
  /\ results' = <<>>
  /\ cur' = NoCmd
  /\ thrown' = NoError
  /\ returned' = NoOutput
  /\ raised' = NoError
  /\ connectCalls' = 0
  /\ closeCalls' = 0
  /\ closeOutcome' = "none"
  /\ parsed' = <<>>
  /\ issued' = <<>>
  /\ completed' = 0
  /\ outcomes' = <<>>
  /\ params' = NoParams
  /\ UNCHANGED <<store, nextOid, inserted, deleted, others>>

\* one batch run
Next ==
  \/ GetCredentials
  \/ CreateClient
  \/ Connect
  \/ ReadParams
  \/ ParseStep
  \/ CommandReturns
  \/ Close

Spec == Init /\ [][Next]_vars

\* a batch run under the assumption that every step of execute, and every
\* driver call it awaits, ends: a run that can take a step eventually takes one
InitLive ==
  /\ run = 1
  /\ inputData \in Inputs
  /\ continueOnFail \in BOOLEAN
  /\ credentials \in BatchCredentials \cup {NoCredentials}
  /\ store = <<>>
  /\ nextOid = 1
  /\ inserted = {}
  /\ deleted = {}
  /\ StartRun
  /\ test = TestIdle
  /\ lister = ListerIdle

SpecLive == InitLive /\ [][Next]_vars /\ WF_vars(Next)

\* batch runs one after the other against one store, with the credentials and
\* settings of the node unchanged
InitRuns ==
  /\ run = 1
  /\ inputData \in Inputs
  /\ continueOnFail \in BOOLEAN
  /\ credentials = Cred("connectionString", GivenTarget, Undef, Undef, Undef, Undef, Undef, FALSE)
  /\ store = <<>>
  /\ nextOid = 1
  /\ inserted = {}
  /\ deleted = {}
  /\ StartRun
  /\ test = TestIdle
  /\ lister = ListerIdle

NextRuns ==
  \/ GetCredentials
  \/ CreateClient
  \/ Connect
  \/ ReadParams
  \/ ParseStep
  \/ CommandReturns
  \/ Close
  \/ NextRun

SpecRuns == InitRuns /\ [][NextRuns]_vars

\* batch runs of a node whose operation is delete, one after the other against
\* a collection that holds documents
InitDelete ==
  /\ run = 1
  /\ inputData \in Inputs
  /\ continueOnFail \in BOOLEAN
  /\ credentials = Cred("connectionString", GivenTarget, Undef, Undef, Undef, Undef, Undef, FALSE)
  /\ \E seed \in SeedStores : store = seed.store /\ nextOid = seed.nextOid
  /\ inserted = {}
  /\ deleted = {}
  /\ StartRun
  /\ test = TestIdle
  /\ lister = ListerIdle

NextDelete ==
  \/ GetCredentials
  \/ CreateClient /\ operation' = "delete"
  \/ Connect
  \/ ReadParams
  \/ ParseStep
  \/ CommandReturns
  \/ Close
  \/ NextRun

SpecDelete == InitDelete /\ [][NextDelete]_vars

TypeOK ==
  /\ pc \in {"start", "params", "connect", "item", "parse", "await", "close", "done",
            "failed"}
  /\ client \in {"none", "created", "open", "closed"}
  /\ idx \in 0..(Len(itemsToProcess) + 1)
  /\ Len(store) <= MaxDocs

\* ------------------------------------------- MongoDbCredentials.test(data)
\* the credential records the connectivity test, the target builder and the
\* collection lister are checked on
CredentialRecords ==
  { Cred("connectionString", cs, Undef, Undef, Undef, Undef, Undef, FALSE) :
      cs \in {GivenTarget, EmptyStr, <<"localhost", ":", "27017">>} }
  \cup
  { Cred("individual", Undef, h, p, d, u, pw, ssl) :
      h \in {Undef, EmptyStr, LocalHost, AtlasHost},
      p \in {Undef, <<"27018">>},
      d \in {Undef, <<"app">>},
      u \in {Undef, EmptyStr, <<"al", "@", "corp">>},
      pw \in {Undef, EmptyStr, <<"s3", ":", "cret">>},
      ssl \in BOOLEAN }

\* the substrings the catch block of test looks for, in the order of its tests
Substrings ==
  <<"ECONNREFUSED", "ENOTFOUND", "ETIMEDOUT", "Authentication failed", "not authorized",
    "MongoServerSelectionError", "MongoParseError">>

\* a failure description holding the substrings numbered in S, last one first
DescriptionOf(S) ==
  LET n == Len(Substrings)
      rev == [i \in 1..n |-> Substrings[n + 1 - i]]
      In(tok) == \E i \in S : Substrings[i] = tok
  IN <<"failure: ">> \o SelectSeq(rev, In)

\* what a driver call of test can raise: an error with any description, with
\* an empty description, or one that has no message property
DriverErrors ==
  { Err("MongoError", DescriptionOf(S)) : S \in SUBSET (1..Len(Substrings)) }
  \cup {Err("Error", EmptyStr), Err("Object", Undef)}

\* what admin.serverStatus() resolves to
ServerStatuses == {[version |-> <<"7.0.5">>, host |-> <<"db1">>],
                   [version |-> <<"7.0.5">>, host |-> Undef]}

TestResult(success, message) == [success |-> success, message |-> message]

\* lines 143-158: the early returns of test
TestRejects(data) ==
  IF data.configurationType = "connectionString"
  THEN ~Truthy(data.connectionString)
  ELSE ~Truthy(data.host) \/ ~Truthy(data.database)

TestRejection(data) ==
  IF data.configurationType = "connectionString"
  THEN TestResult(FALSE, <<"Connection string is required">>)
  ELSE TestResult(FALSE, <<"Host and database are required">>)

\* variant: the port is kept in the authority of a managed cluster
TestConnectionStringKeepsPort(data) ==
  IF data.configurationType # "connectionString" /\ Includes(data.host, ".mongodb.net")
  THEN <<"mongodb+srv://">> \o data.host \o <<":">> \o Render(data.port) \o <<"/">>
       \o Render(data.database)
       \o <<"?", "authSource=admin", "&", "retryWrites=true", "&", "w=majority">>
  ELSE buildConnectionString(data)

\* variant: the option ssl=true is added whatever the ssl flag is
TestConnectionStringSslAlways(data) == buildConnectionString([data EXCEPT !.ssl = TRUE])

\* variant: a user without a password is embedded in the authority
TestConnectionStringUserOnly(data) ==
  IF Truthy(data.user) /\ ~Truthy(data.password)
  THEN buildConnectionString([data EXCEPT !.password = <<"none">>])
  ELSE buildConnectionString(data)

\* variant: user and password are embedded as they were given
TestConnectionStringRawAuth(data) ==
  IF data.configurationType # "connectionString" /\ Truthy(data.user) /\ Truthy(data.password)
  THEN LET host == IF Includes(data.host, ".mongodb.net") THEN <<"mongodb+srv://">>
                   ELSE <<"mongodb://">>
           rest == buildConnectionString([data EXCEPT !.user = Undef])
       IN host \o data.user \o <<":">> \o data.password \o <<"@">>
          \o SubSeq(rest, 2, Len(rest))
  ELSE buildConnectionString(data)

\* lines 143-184: the connection target test builds by itself
TestConnectionString(data) ==
  IF data.configurationType = "connectionString"
  THEN data.connectionString
  ELSE
    LET auth == IF Truthy(data.user) /\ Truthy(data.password)
                THEN encodeURIComponent(data.user) \o <<":">>
                     \o encodeURIComponent(data.password) \o <<"@">>
                ELSE EmptyStr
        isAtlas == Includes(data.host, ".mongodb.net")
        port == IF Truthy(data.port) THEN data.port ELSE <<"27017">>
        sslParam == IF data.ssl THEN <<"?ssl=true">> ELSE EmptyStr
    IN IF isAtlas
       THEN <<"mongodb+srv://">> \o auth \o data.host \o <<"/">> \o Render(data.database)
            \o <<"?", "authSource=admin", "&", "retryWrites=true", "&", "w=majority">>
       ELSE <<"mongodb://">> \o auth \o data.host \o <<":">> \o port
            \o <<"/">> \o Render(data.database) \o sslParam

\* error.message.includes(...) raises a TypeError when error.message is not a string
ClassifyThrows(error) == error.message \in {Undef, Null}

\* variant: the test for ENOTFOUND comes before the test for ECONNREFUSED
ClassifyHostFirst(error) ==
  IF Includes(error.message, "ENOTFOUND")
  THEN TestResult(FALSE, <<"Cannot resolve host. Please check the hostname.">>)
  ELSE IF Includes(error.message, "ECONNREFUSED")
  THEN TestResult(FALSE, <<"Cannot connect to MongoDB server. Connection refused. Please check if MongoDB is running.">>)
  ELSE TestResult(FALSE, <<"Connection failed: ">> \o error.message)

\* lines 217-260: the catch block of test
Classify(error) ==
  IF Includes(error.message, "ECONNREFUSED")
  THEN TestResult(FALSE, <<"Cannot connect to MongoDB server. Connection refused. Please check if MongoDB is running.">>)
  ELSE IF Includes(error.message, "ENOTFOUND")
  THEN TestResult(FALSE, <<"Cannot resolve host. Please check the hostname.">>)
  ELSE IF Includes(error.message, "ETIMEDOUT")
  THEN TestResult(FALSE, <<"Connection timeout. Please check firewall and network settings.">>)
  ELSE IF Includes(error.message, "Authentication failed")
  THEN TestResult(FALSE, <<"Authentication failed. Invalid username or password.">>)
  ELSE IF Includes(error.message, "not authorized")
  THEN TestResult(FALSE, <<"Authorization failed. User does not have access to this database.">>)
  ELSE IF Includes(error.message, "MongoServerSelectionError")
  THEN TestResult(FALSE, <<"Unable to connect to MongoDB server. Please check connection settings.">>)
  ELSE IF Includes(error.message, "MongoParseError")
  THEN TestResult(FALSE, <<"Invalid connection string format. Please check your connection string.">>)
  ELSE TestResult(FALSE, <<"Connection failed: ">>
                         \o (IF Truthy(error.message) THEN error.message
                             ELSE <<"Unknown error">>))

\* catch (error), lines 217-260: test returns the classified failure, or
\* raises when the classification itself raises
OuterCatch(t, error) ==
  IF ClassifyThrows(error)
  THEN [t EXCEPT !.pc = "raised", !.error = error,
                 !.raised = Err("TypeError", TypeErrorMsg)]
  ELSE [t EXCEPT !.pc = "returned", !.error = error, !.result = Classify(error)]

\* lines 139-184: validation and the connection target
TestResolve ==
  /\ test.pc = "start"
  /\ test' = IF TestRejects(credentials)
             THEN [test EXCEPT !.pc = "returned", !.result = TestRejection(credentials)]
             ELSE [test EXCEPT !.pc = "client",
                               !.connectionString = TestConnectionString(credentials)]
  /\ UNCHANGED <<batch, credentials, lister>>

\* lines 187-194: new MongoClient(connectionString, ...)
TestNewClient ==
  /\ test.pc = "client"
  /\ test' = IF ClientCtorThrows(test.connectionString)
             THEN OuterCatch(test, CtorError)
             ELSE [test EXCEPT !.pc = "connect", !.client = "created"]
  /\ UNCHANGED <<batch, credentials, lister>>

\* line 198: await client.connect()
TestConnect ==
  /\ test.pc = "connect"
  /\ \/ test' = [test EXCEPT !.pc = "status", !.client = "open"]
     \/ \E e \in DriverErrors : test' = [test EXCEPT !.pc = "catch", !.error = e]
  /\ UNCHANGED <<batch, credentials, lister>>

\* lines 201-202: await admin.serverStatus()
TestServerStatus ==
  /\ test.pc = "status"
  /\ \/ \E st \in ServerStatuses : test' = [test EXCEPT !.pc = "close", !.serverStatus = st]
     \/ \E e \in DriverErrors : test' = [test EXCEPT !.pc = "catch", !.error = e]
  /\ UNCHANGED <<batch, credentials, lister>>

\* lines 204-212: await client.close(), then the success record
TestClose ==
  /\ test.pc = "close"
  /\ \/ LET version == test.serverStatus.version
            host == IF Truthy(test.serverStatus.host) THEN test.serverStatus.host
                    ELSE <<"MongoDB Server">>
        IN test' = [test EXCEPT !.pc = "returned", !.client = "closed",
                                !.closeCalls = @ + 1,
                                !.result = TestResult(TRUE,
                                   <<"Connected successfully to MongoDB ">> \o Render(version)
                                   \o <<" at ">> \o host)]
     \/ \E e \in DriverErrors :
          test' = [test EXCEPT !.pc = "catch", !.error = e, !.closeCalls = @ + 1]
  /\ UNCHANGED <<batch, credentials, lister>>

\* lines 213-216: catch (connectionError) { await client.close(); throw connectionError }
TestCatch ==
  /\ test.pc = "catch"
  /\ \/ test' = OuterCatch([test EXCEPT !.client = "closed", !.closeCalls = @ + 1],
                           test.error)
     \/ \E e \in DriverErrors :
          test' = OuterCatch([test EXCEPT !.closeCalls = @ + 1], e)
  /\ UNCHANGED <<batch, credentials, lister>>

\* the credential records the calls of test and getCollections are followed
\* through for
ConnectedCredentials ==
  BatchCredentials \cup
  { Cred("connectionString", <<"localhost", ":", "27017">>, Undef, Undef, Undef, Undef,
         Undef, FALSE),
    Cred("individual", Undef, AtlasHost, Undef, <<"app">>, <<"al", "@", "corp">>,
         <<"s3", ":", "cret">>, FALSE),
    Cred("individual", Undef, LocalHost, Undef, <<"app">>, Undef, Undef, FALSE) }

\* one call of test
InitTest ==
  /\ run = 1
  /\ inputData = [main |-> "absent", items |-> <<>>]
  /\ continueOnFail = FALSE
  /\ credentials \in ConnectedCredentials
  /\ store = <<>>
  /\ nextOid = 1
  /\ inserted = {}
  /\ deleted = {}
  /\ StartRun
  /\ test = [TestIdle EXCEPT !.pc = "start"]
  /\ lister = ListerIdle

NextTest ==
  \/ TestResolve
  \/ TestNewClient
  \/ TestConnect
  \/ TestServerStatus
  \/ TestClose
  \/ TestCatch

SpecTest == InitTest /\ [][NextTest]_vars

\* ------------------------------------------- loadOptions.getCollections()
\* what a driver call of getCollections can raise
ListerErrors == ConnectErrors \cup CloseErrors

\* the collection names db.listCollections().toArray() can resolve to
CollectionLists == {<<>>, <<"users">>, <<"users", "orders">>}

Entry(name, value, description) ==
  [name |-> name, value |-> value, description |-> description]

\* lines 1066-1070: one entry per collection
CollectionEntries(collections) ==
  [i \in 1..Len(collections) |->
     Entry(<<collections[i]>>, <<collections[i]>>, <<"Collection: ", collections[i]>>)]

\* lines 1022-1047: the credentials and the connection target
ListerResolve ==
  /\ lister.pc = "start"
  /\ lister' =
       IF credentials = NoCredentials
       THEN [lister EXCEPT !.pc = "returned",
                           !.result = <<Entry(<<"No credentials selected">>, EmptyStr,
                                              <<"Please select MongoDB credentials first">>)>>]
       ELSE IF BuildThrows(credentials)
       THEN [lister EXCEPT !.pc = "returned",
                           !.error = Err("TypeError", TypeErrorMsg),
                           !.result = <<Entry(<<"Error: Credentials required">>, EmptyStr,
                                              TypeErrorMsg)>>]
       ELSE [lister EXCEPT !.pc = "client",
                           !.connectionString = buildConnectionString(credentials)]
  /\ UNCHANGED <<batch, credentials, test>>

\* lines 1049-1054: new MongoClient(connectionString, ...), outside any try block
ListerNewClient ==
  /\ lister.pc = "client"
  /\ lister' = IF ClientCtorThrows(lister.connectionString)
               THEN [lister EXCEPT !.pc = "raised", !.raised = CtorError]
               ELSE [lister EXCEPT !.pc = "connect", !.client = "created"]
  /\ UNCHANGED <<batch, credentials, test>>

\* line 1057: await client.connect()
ListerConnect ==
  /\ lister.pc = "connect"
  /\ \/ lister' = [lister EXCEPT !.pc = "list", !.client = "open", !.connectCalls = @ + 1]
     \/ \E e \in ListerErrors :
          lister' = [lister EXCEPT !.pc = "catch", !.error = e, !.connectCalls = @ + 1]
  /\ UNCHANGED <<batch, credentials, test>>

\* lines 1058-1061: await db.listCollections().toArray()
ListerList ==
  /\ lister.pc = "list"
  /\ \/ \E c \in CollectionLists :
          lister' = [lister EXCEPT !.pc = "close", !.collections = c, !.listCalls = @ + 1]
     \/ \E e \in ListerErrors :
          lister' = [lister EXCEPT !.pc = "catch", !.error = e, !.listCalls = @ + 1]
  /\ UNCHANGED <<batch, credentials, test>>

\* lines 1063-1070: await client.close(), then the entries
ListerClose ==
  /\ lister.pc = "close"
  /\ \/ lister' = [lister EXCEPT !.pc = "returned", !.client = "closed",
                                 !.closeCalls = @ + 1,
                                 !.result = CollectionEntries(lister.collections)]
     \/ \E e \in ListerErrors :
          lister' = [lister EXCEPT !.pc = "catch", !.error = e, !.closeCalls = @ + 1]
  /\ UNCHANGED <<batch, credentials, test>>

\* variant: the catch block returns the error entry without closing the client
ListerCatchSkipsClose ==
  /\ lister.pc = "catch"
  /\ lister' = [lister EXCEPT
                  !.pc = "returned",
                  !.result = <<Entry(<<"Error loading collections - check credentials">>,
                                     EmptyStr, lister.error.message)>>]
  /\ UNCHANGED <<batch, credentials, test>>

\* lines 1071-1081: catch (error) { await client.close(); ...; return [ entry ] }
ListerCatch ==
  /\ lister.pc = "catch"
  /\ \/ lister' = [lister EXCEPT
                     !.pc = "returned", !.client = "closed", !.closeCalls = @ + 1,
                     !.result = <<Entry(<<"Error loading collections - check credentials">>,
                                        EmptyStr, lister.error.message)>>]
     \/ \E e \in ListerErrors :
          lister' = [lister EXCEPT !.pc = "raised", !.raised = e, !.closeCalls = @ + 1]
  /\ UNCHANGED <<batch, credentials, test>>

\* one call of getCollections, for every credential record and for none
InitLister ==
  /\ run = 1
  /\ inputData = [main |-> "absent", items |-> <<>>]
  /\ continueOnFail = FALSE
  /\ credentials \in CredentialRecords \cup {NoCredentials}
  /\ store = <<>>
  /\ nextOid = 1
  /\ inserted = {}
  /\ deleted = {}
  /\ StartRun
  /\ test = TestIdle
  /\ lister = [ListerIdle EXCEPT !.pc = "start"]

NextLister ==
  \/ ListerResolve
  \/ ListerNewClient
  \/ ListerConnect
  \/ ListerList
  \/ ListerClose
  \/ ListerCatch

SpecLister == InitLister /\ [][NextLister]_vars

\* the two builders of the connection target, applied to every credential record
InitResolve ==
  /\ run = 1
  /\ inputData = [main |-> "absent", items |-> <<>>]
  /\ continueOnFail = FALSE
  /\ credentials \in CredentialRecords
  /\ store = <<>>
  /\ nextOid = 1
  /\ inserted = {}
  /\ deleted = {}
  /\ StartRun
  /\ test = [TestIdle EXCEPT !.pc = "start"]
  /\ lister = [ListerIdle EXCEPT !.pc = "start"]

NextResolve ==
  \/ TestResolve
  \/ ListerResolve

SpecResolve == InitResolve /\ [][NextResolve]_vars

\* ================================================================ claims
ConnectSucceeded == idx >= 1
ConnectFailed == connectCalls = 1 /\ idx = 0
RunEnded == pc \in {"done", "failed"}
GivenCount == IF inputData.main = "given" THEN Len(inputData.items) ELSE 0
Max(a, b) == IF a >= b THEN a ELSE b

\* C1: in a run that reaches connect, connect is called once and close is
\* called once; close comes after the last item step and before execute
\* returns or raises, however the run ends.
C1_ConnectCloseOnce ==
  /\ connectCalls \in {0, 1}
  /\ closeCalls <= connectCalls
  /\ (pc \in {"start", "params", "connect"} => connectCalls = 0)
  /\ (pc \in {"item", "parse", "await", "close"} => connectCalls = 1 /\ closeCalls = 0)
  /\ (RunEnded /\ connectCalls = 1 => closeCalls = 1 /\ client = "closed")

C1_Witness ==
  /\ pc = "failed" /\ ~continueOnFail /\ Len(parsed) = 2
  /\ connectCalls = 1 /\ closeCalls = 1

\* the run was aborted by the failure of item Len(outcomes) under fail-fast
FailFastAborted == ~continueOnFail /\ outcomes # <<>> /\ ~outcomes[Len(outcomes)].ok

NoWorkAfterFailure ==
  LET k == Len(outcomes)
  IN /\ Len(parsed) = k
     /\ \A j \in 1..k : parsed[j].item = j
     /\ \A j \in 1..Len(issued) : issued[j] <= k
     /\ Len(results) = k - 1
     /\ returned = NoOutput
     /\ pc \in {"close", "failed"}
     /\ thrown = outcomes[k].error

EntryMatches(i) ==
  LET json == itemsToProcess[i].json
      o == outcomes[i]
      e == results[i].json
      fields == IF o.ok THEN ResultFields([kind |-> o.kind], o.result)
                ELSE [error |-> TRUE, errorMessage |-> o.error.message,
                      errorDetails |-> <<o.error.name, ": ">> \o o.error.message]
  IN /\ DOMAIN e = DOMAIN json \cup DOMAIN fields
     /\ \A key \in DOMAIN e :
          e[key] = IF key \in DOMAIN fields THEN fields[key] ELSE json[key]

C4_SyntheticItem ==
  pc # "start" =>
    LET n == Max(GivenCount, 1)
    IN /\ (GivenCount = 0 => itemsToProcess = <<[json |-> EmptyJson]>>)
       /\ (GivenCount >= 1 => itemsToProcess = inputData.items)
       /\ Len(parsed) <= n
       /\ \A j \in 1..Len(issued) : issued[j] <= n
       /\ (pc = "done" => Len(returned.main) = n /\ Len(parsed) = n)
       /\ (pc = "done" /\ GivenCount = 0 /\ outcomes[1].ok =>
             /\ issued = <<1>>
             /\ returned.main[1].json = ResultFields([kind |-> outcomes[1].kind],
                                                     outcomes[1].result))

C4_Witness ==
  /\ pc = "done" /\ inputData.main = "absent" /\ issued = <<1>>
  /\ Len(returned.main) = 1 /\ outcomes[1].ok

\* C5: when connect fails, no item is parsed, no command is issued, nothing
\* is returned, and the run ends as failed with close called on the client.
C5_ConnectFailure ==
  ConnectFailed =>
    /\ parsed = <<>> /\ issued = <<>> /\ results = <<>> /\ outcomes = <<>>
    /\ returned = NoOutput
    /\ pc \in {"close", "failed"}
    /\ (pc = "failed" => closeCalls = 1 /\ client = "closed" /\ raised # NoError)

C5_Witness ==
  /\ ConnectFailed /\ pc = "failed" /\ closeCalls = 1 /\ raised \in ConnectErrors

InFlight == Len(issued) - completed

\* C6: at most one driver call is in flight; the call of the next item is made
\* only when the call of the item before it has ended and its result or error
\* is recorded; every call is made on the open connection, before close.
C6_OneInFlight ==
  /\ InFlight \in {0, 1}
  /\ (InFlight = 1 <=> pc = "await")
  /\ \A j \in 1..(Len(issued) - 1) : issued[j] < issued[j + 1]
  /\ (pc = "await" =>
        /\ client = "open" /\ connectCalls = 1 /\ closeCalls = 0
        /\ issued[Len(issued)] = idx
        /\ Len(outcomes) = idx - 1
        /\ Len(results) = idx - 1)
  /\ (closeCalls = 1 => InFlight = 0)

C6_Witness ==
  /\ pc = "await" /\ idx = 2 /\ issued = <<1, 2>> /\ completed = 1
  /\ Len(outcomes) = 1 /\ client = "open"

\* the driver calls of each operation kind
KindsOf(op) ==
  CASE op = "find" -> {"find"}
    [] op = "insert" -> {"insertOne", "insertMany"}
    [] op = "update" -> {"updateOne", "updateMany"}
    [] op = "delete" -> {"deleteOne", "deleteMany"}
    [] op = "aggregate" -> {"aggregate"}
    [] OTHER -> {}

\* C7: an item causes at most one driver call (a cursor fetch for find and
\* aggregate, a write call for insert, update and delete), and exactly one
\* when its parameters parse; a failed call is not made again, and the failure
\* is recorded on the item (continue-on-fail) or raised (fail-fast) at once.
C7_OneCommandPerItem ==
  /\ (pc = "await" => cur.kind \in KindsOf(operation))
  /\ \A j \in 1..Len(parsed) : parsed[j].item = j
  /\ \A i, j \in 1..Len(issued) : issued[i] = issued[j] => i = j
  /\ \A j \in 1..Len(parsed) : parsed[j].ok <=> (\E i \in 1..Len(issued) : issued[i] = j)
  /\ \A j \in 1..Len(outcomes) :
       ~outcomes[j].ok =>
         IF continueOnFail
         THEN /\ results[j].json.error
              /\ results[j].json.errorMessage = outcomes[j].error.message
         ELSE /\ j = Len(outcomes)
              /\ thrown = outcomes[j].error
              /\ pc \in {"close", "failed"}

C7_Witness ==
  /\ continueOnFail /\ pc = "done" /\ Len(parsed) = 2
  /\ parsed[1].ok /\ ~outcomes[1].ok /\ outcomes[2].ok
  /\ issued = <<1, 2>> /\ completed = 2

\* C8: a find whose query text is {"_id": <insertedId returned by a single
\* insert that let the store generate the identifier>} returns exactly the
\* inserted document (checked for finds made while the document is still in
\* the collection, with no projection, sort, skip or limit).
C8_RoundTrip ==
  [][\A r \in inserted :
       ( /\ pc = "await"
         /\ cur.kind = "find"
         /\ cur.filter = Obj(r.id, Absent, Absent)
         /\ cur.mods = <<>>
         /\ r.generated
         /\ \E i \in 1..Len(store) : store[i] = r.doc
         /\ Len(outcomes') = Len(outcomes) + 1
         /\ outcomes'[Len(outcomes')].ok )
       => outcomes'[Len(outcomes')].result.documents = <<r.doc>>]_vars

\* the arguments of a driver call that have to be objects
ObjectArgs(cmd) ==
  CASE cmd.kind = "find" ->
         {cmd.filter} \cup {cmd.mods[i].arg : i \in {j \in 1..Len(cmd.mods) :
                                                      cmd.mods[j].m \in {"project", "sort"}}}
    [] cmd.kind = "insertOne" -> {cmd.doc}
    [] cmd.kind \in {"updateOne", "updateMany"} -> {cmd.filter, cmd.update}
    [] cmd.kind \in {"deleteOne", "deleteMany"} -> {cmd.filter}
    [] OTHER -> {}

\* C9: a text that parses to a JSON array, given for a field that has to hold
\* an object, makes the item fail before any driver call: no driver call ever
\* carries an array where an object is expected.
C9_ArrayRejected ==
  pc = "await" => \A v \in ObjectArgs(cur) : v.t # "arr"

CredentialsIncomplete ==
  \/ credentials = NoCredentials
  \/ /\ credentials.configurationType = "connectionString"
     /\ ~Truthy(credentials.connectionString)
  \/ /\ credentials.configurationType = "individual"
     /\ (~Truthy(credentials.host) \/ ~Truthy(credentials.database))

\* C10: with the credential record missing, or of the connection-string kind
\* with an empty connection string, or of the individual kind without host or
\* database, execute fails before a client is created and before connect.
C10_ConfigurationError ==
  CredentialsIncomplete =>
    /\ client = "none"
    /\ connectCalls = 0
    /\ pc \in {"start", "params", "failed"}
    /\ (pc = "failed" => raised # NoError)

\* a call of test that met a failure: a rejected record, or an error caught
TestFailed ==
  \/ test.pc = "returned" /\ test.error # NoError
  \/ test.pc = "returned" /\ TestRejects(credentials)

\* C11: test never raises: whatever the credential record and however client
\* construction, connect, serverStatus and close end, also with an error whose
\* description is absent or empty, test ends by returning a record
\* {success, message}, with success false after a failure.
C11_TestNeverRaises ==
  /\ test.pc # "raised"
  /\ test.raised = NoError
  /\ (test.pc = "returned" => DOMAIN test.result = {"success", "message"})
  /\ (TestFailed => ~test.result.success)

\* the message each cause is reported with, in the order of Substrings
CauseMessages ==
  <<<<"Cannot connect to MongoDB server. Connection refused. Please check if MongoDB is running.">>,
    <<"Cannot resolve host. Please check the hostname.">>,
    <<"Connection timeout. Please check firewall and network settings.">>,
    <<"Authentication failed. Invalid username or password.">>,
    <<"Authorization failed. User does not have access to this database.">>,
    <<"Unable to connect to MongoDB server. Please check connection settings.">>,
    <<"Invalid connection string format. Please check your connection string.">>>>

\* the positions in Substrings of the substrings a description contains
Found(description) == {i \in 1..Len(Substrings) : Includes(description, Substrings[i])}
First(S) == CHOOSE i \in S : \A j \in S : i <= j

\* C12: a caught failure is reported with the cause of the first substring of
\* the fixed order that its description contains, whatever it contains
\* besides; a description with none of them is reported as unknown with the
\* description itself in the message (the words "Unknown error" when the
\* description is empty).
C12_FirstSubstringWins ==
  test.pc = "returned" /\ test.error # NoError =>
    LET d == test.error.message
    IN /\ ~test.result.success
       /\ (Found(d) # {} => test.result.message = CauseMessages[First(Found(d))])
       /\ (Found(d) = {} /\ d # EmptyStr =>
             test.result.message = <<"Connection failed: ">> \o d)
       /\ (Found(d) = {} /\ d = EmptyStr =>
             test.result.message = <<"Connection failed: ", "Unknown error">>)
       /\ (Includes(d, "ECONNREFUSED") => test.result.message = CauseMessages[1])

C12_Witness ==
  /\ test.pc = "returned"
  /\ Found(test.error.message) = {1, 2, 7}
  /\ test.result.message = CauseMessages[1]

\* what the catch block of test would make of a description
Classified(d) == IF Found(d) # {} THEN CauseMessages[First(Found(d))] ELSE d

\* the items whose driver call failed
CommandFailed(j) == parsed[j].ok /\ ~outcomes[j].ok

SlashAt(t) == CHOOSE i \in 2..Len(t) : t[i] = "/" /\ \A j \in 2..(i - 1) : t[j] # "/"
Authority(t) == SubSeq(t, 2, SlashAt(t) - 1)
AtAt(a) == CHOOSE i \in 1..Len(a) : a[i] = "@"
UserInfo(t) ==
  LET a == Authority(t) IN IF Includes(a, "@") THEN SubSeq(a, 1, AtAt(a) - 1) ELSE <<>>
HostPort(t) ==
  LET a == Authority(t) IN IF Includes(a, "@") THEN SubSeq(a, AtAt(a) + 1, Len(a)) ELSE a
AfterSlash(t) == SubSeq(t, SlashAt(t) + 1, Len(t))

IndividualRecord == credentials.configurationType = "individual"
ManagedHost == IndividualRecord /\ Includes(credentials.host, ".mongodb.net")
PlainHost ==
  IndividualRecord /\ credentials.host # Undef /\ ~Includes(credentials.host, ".mongodb.net")

\* the targets built so far from the credential record: by test, by buildConnectionString
Targets ==
  (IF test.pc = "client" THEN {test.connectionString} ELSE {})
  \cup (IF lister.pc = "client" THEN {lister.connectionString} ELSE {})
BothBuilt == test.pc = "client" /\ lister.pc = "client"

\* C14: for an individual-parameter record whose host contains .mongodb.net,
\* either builder gives a target with the scheme mongodb+srv (the scheme that
\* turns TLS on), whose authority ends with the host and has no port,
\* and whose options are exactly authSource=admin, retryWrites=true,
\* w=majority in that order, whatever the ssl flag and the port field are.
C14_ManagedCluster ==
  ManagedHost =>
    \A t \in Targets :
      /\ t[1] = "mongodb+srv://"
      /\ HostPort(t) = credentials.host
      /\ AfterSlash(t) = Render(credentials.database)
                         \o <<"?", "authSource=admin", "&", "retryWrites=true", "&",
                              "w=majority">>
      /\ ~Includes(t, "?ssl=true")
      /\ \A i \in 1..Len(credentials.port) :
           credentials.port # Undef => ~Includes(t, credentials.port[i])

C14_Witness ==
  /\ ManagedHost /\ BothBuilt
  /\ ~credentials.ssl /\ credentials.port = <<"27018">>
  /\ test.connectionString[1] = "mongodb+srv://"
  /\ lister.connectionString = test.connectionString

\* C15: for an individual-parameter record whose host does not contain
\* .mongodb.net, either builder gives a target with the scheme mongodb, whose
\* port is the configured port when one is set and 27017 when it is not, and
\* which has the option ssl=true exactly when the ssl flag is set.
C15_StandardHost ==
  PlainHost =>
    \A t \in Targets :
      /\ t[1] = "mongodb://"
      /\ HostPort(t) = credentials.host \o <<":">>
                       \o (IF Truthy(credentials.port) THEN credentials.port
                           ELSE <<"27017">>)
      /\ (credentials.ssl <=> Includes(t, "?ssl=true"))
      /\ AfterSlash(t) = Render(credentials.database)
                         \o (IF credentials.ssl THEN <<"?ssl=true">> ELSE <<>>)

C15_Witness ==
  /\ PlainHost /\ BothBuilt
  /\ credentials.port = Undef /\ credentials.ssl
  /\ HostPort(test.connectionString) = <<"localhost", ":", "27017">>
  /\ HostPort(lister.connectionString) = <<"localhost", ":", "27017">>

BothPresent == Truthy(credentials.user) /\ Truthy(credentials.password)

\* the tokens of a field that would give it away in a target
Traces(field) ==
  IF Truthy(field)
  THEN ({field[i] : i \in 1..Len(field)} \cup {EncodeToken(field[i]) : i \in 1..Len(field)})
       \ {":"}
  ELSE {}

\* C16: for an individual-parameter record, either builder puts credentials in
\* the authority exactly when user and password are both non-empty, and then
\* as encoded user, colon, encoded password; when one of them or both are
\* missing the authority has no credentials and nothing of the one that is
\* present occurs in the target.
C16_CredentialsEmbedded ==
  IndividualRecord =>
    \A t \in Targets :
      /\ (UserInfo(t) # <<>> <=> BothPresent)
      /\ (Includes(Authority(t), "@") <=> BothPresent)
      /\ (BothPresent =>
            UserInfo(t) = encodeURIComponent(credentials.user) \o <<":">>
                          \o encodeURIComponent(credentials.password))
      /\ (~BothPresent =>
            \A tok \in Traces(credentials.user) \cup Traces(credentials.password) :
              ~Includes(t, tok))

C16_Witness ==
  /\ IndividualRecord /\ BothBuilt
  /\ Truthy(credentials.user) /\ credentials.password = Undef
  /\ UserInfo(test.connectionString) = <<>>
  /\ UserInfo(lister.connectionString) = <<>>

\* the value an array is required for, for the item whose parameters were read
ArrayParam ==
  IF operation = "insert" THEN ParseOrPass(params.documents) ELSE ParseOrPass(params.pipeline)
ArrayRequired ==
  /\ pc = "parse"
  /\ \/ operation = "insert" /\ params.insertMode = "multiple"
     \/ operation = "aggregate"
MustBeArray ==
  IF operation = "insert" THEN <<"Documents must be an array">>
  ELSE <<"Pipeline must be an array">>
InvalidJson ==
  IF operation = "insert" THEN "Invalid documents JSON: " ELSE "Invalid pipeline JSON: "

\* C17: when the documents value of an insert with insertMode=multiple, or the
\* pipeline value of an aggregate, parses to something that is not an array,
\* the item fails with 'Documents must be an array' or 'Pipeline must be an
\* array', not with the 'Invalid ... JSON' error of a text that does not
\* parse, and no insertMany or aggregate call is made for the item.
C17_MustBeArray ==
  [][ArrayRequired /\ ArrayParam.ok /\ ~IsArray(ArrayParam.val) =>
       /\ Len(outcomes') = Len(outcomes) + 1
       /\ ~outcomes'[Len(outcomes')].ok
       /\ outcomes'[Len(outcomes')].error.message = MustBeArray
       /\ ~Includes(outcomes'[Len(outcomes')].error.message, InvalidJson)
       /\ issued' = issued
       /\ cur' = NoCmd
       /\ pc' # "await"]_vars

C17_Witness ==
  /\ operation = "insert" /\ continueOnFail /\ pc = "done"
  /\ parsed = <<[item |-> 1, ok |-> FALSE]>> /\ issued = <<>>
  /\ returned.main[1].json.errorMessage = <<"Documents must be an array">>

\* the documents a find has to return: the matches left after the skip, cut
\* to the limit when one is applied
Remaining == Max(0, Len(Select(store, cur.filter)) - params.skip)
LimitApplies == ~params.returnAll /\ params.limit > 0

\* C18: a find hands a limit to its cursor exactly when returnAll is false and
\* the limit parameter is above 0, and then it is the limit parameter; with
\* returnAll true, or with limit 0, no limit is applied and the find returns
\* every match left after the skip, so a limit of 0 never empties a result.
C18_LimitApplied ==
  [][pc = "await" /\ operation = "find" =>
       /\ (HasMod(cur.mods, "limit") <=> LimitApplies)
       /\ (LimitApplies => ModOf(cur.mods, "limit").n = params.limit)
       /\ (Len(outcomes') = Len(outcomes) + 1 /\ outcomes'[Len(outcomes')].ok =>
             Len(outcomes'[Len(outcomes')].result.documents)
               = IF LimitApplies THEN Min(params.limit, Remaining) ELSE Remaining)]_vars

C18_Witness ==
  /\ pc = "await" /\ operation = "find"
  /\ ~params.returnAll /\ params.limit = 0 /\ params.skip = 0
  /\ CmdValid(cur) /\ ~HasMod(cur.mods, "limit")
  /\ Select(store, cur.filter) # <<>>

\* the driver call being awaited repeats a deleteMany that has completed
RepeatsDelete == pc = "await" /\ cur.kind = "deleteMany" /\ cur.filter \in deleted

\* C19: when a deleteMany with a filter has completed, a later deleteMany with
\* the same filter, by a later item of the batch or in a later run, is
\* answered with deletedCount 0 and acknowledged true, is not an error (the
\* only way it fails is the connection failing), and leaves the collection as
\* it was; the entry pushed for the item carries that answer.
C19_DeleteIdempotent ==
  [][RepeatsDelete /\ Len(outcomes') = Len(outcomes) + 1 =>
       LET o == outcomes'[Len(outcomes')]
       IN /\ store' = store
          /\ (o.ok \/ o.error \in CommandErrors)
          /\ (o.ok =>
                /\ o.result = [deletedCount |-> 0, acknowledged |-> TRUE]
                /\ results'[Len(results')].json.deletedCount = 0
                /\ results'[Len(results')].json.acknowledged)]_vars

C19_Witness ==
  /\ run = 2 /\ pc = "done" /\ Len(outcomes) = 2
  /\ outcomes[1].ok /\ outcomes[1].kind = "deleteMany"
  /\ outcomes[1].result.deletedCount = 0
  /\ outcomes[2].ok /\ outcomes[2].kind = "deleteMany"
  /\ outcomes[2].result.deletedCount = 0
  /\ deleted = {Obj(Absent, Num(1), Absent)}
  /\ store = <<Doc(Oid(2), Num(2))>>

\* getCollections met a failure: no credentials, no target, or an error caught
ListerFailed ==
  \/ credentials = NoCredentials
  \/ lister.error # NoError

\* C20: getCollections never raises: with credentials missing, with no target
\* to build from the record (an empty connection string too), and when making
\* the client, connect or the listing fails, it ends by returning exactly one
\* entry, with an empty value, that carries the message of the failure.
C20_ListerNeverRaises ==
  /\ lister.pc # "raised"
  /\ lister.raised = NoError
  /\ (lister.pc = "returned" /\ ListerFailed =>
        /\ Len(lister.result) = 1
        /\ lister.result[1].value = EmptyStr
        /\ (lister.error # NoError => lister.result[1].description = lister.error.message))

\* C21: in getCollections, once connect has been attempted on the client,
\* close has been called on it by the time getCollections returns (and also
\* when it ends by raising), after a successful listing and after a failure
\* alike; connect and the listing are each called at most once, and the
\* listing is called only on the open client, before any call of close.
C21_ListerCloses ==
  [][/\ (lister'.pc \in {"returned", "raised"} /\ lister'.connectCalls = 1 =>
           lister'.closeCalls >= 1)
     /\ (lister'.pc = "returned" /\ lister'.connectCalls = 1 => lister'.client = "closed")
     /\ lister'.connectCalls <= 1
     /\ lister'.listCalls <= 1
     /\ (lister'.listCalls > lister.listCalls =>
           lister.closeCalls = 0 /\ lister.client = "open")
     /\ (lister.closeCalls >= 1 => lister'.listCalls = lister.listCalls)]_vars

C21_Witness ==
  /\ lister.pc = "returned" /\ lister.connectCalls = 1 /\ lister.listCalls = 1
  /\ lister.error \in ConnectErrors /\ lister.closeCalls = 1
  /\ lister.client = "closed" /\ Len(lister.result) = 1

\* the place of a cursor modifier in the order projection, sort, skip, limit
ModRank(m) ==
  CASE m = "project" -> 1 [] m = "sort" -> 2 [] m = "skip" -> 3 [] m = "limit" -> 4

\* C22: the cursor of a find gets its modifiers in the order projection, sort,
\* skip, limit, each at most once: a projection or a sort only when its text
\* is not empty, and then the value the text parses to; the skip exactly when
\* skip > 0; a limit only when the limit parameter is above 0; the result is
\* then fetched by the one driver call of the item.
C22_ModifierOrder ==
  pc = "await" /\ operation = "find" =>
    LET mods == cur.mods
    IN /\ \A i, j \in 1..Len(mods) : i < j => ModRank(mods[i].m) < ModRank(mods[j].m)
       /\ (HasMod(mods, "project") =>
             /\ params.projection # EmptyStr
             /\ ModOf(mods, "project").arg = JSONParse(params.projection).val)
       /\ (HasMod(mods, "sort") =>
             /\ params.sort # EmptyStr
             /\ ModOf(mods, "sort").arg = JSONParse(params.sort).val)
       /\ (HasMod(mods, "skip") <=> params.skip > 0)
       /\ (HasMod(mods, "skip") => ModOf(mods, "skip").n = params.skip)
       /\ (HasMod(mods, "limit") => params.limit > 0)
       /\ cur.kind = "find"
       /\ Cardinality({i \in 1..Len(issued) : issued[i] = idx}) = 1
       /\ completed = Len(issued) - 1

C22_Witness ==
  /\ pc = "await" /\ operation = "find" /\ Len(cur.mods) = 4
  /\ cur.mods[1].m = "project" /\ cur.mods[4].m = "limit"

\* a text that is given and does not parse
TextFails(text) == text # EmptyStr /\ ~JSONParse(text).ok
\* a value that does not parse, or that is not the array it has to be
ValueFails(v) == ~ParseOrPass(v).ok
NotArray(v) == ParseOrPass(v).ok /\ ~IsArray(ParseOrPass(v).val)

\* the parameters read for the item do not make a command
ParseFails ==
  CASE operation = "find" ->
         TextFails(params.query) \/ TextFails(params.projection) \/ TextFails(params.sort)
    [] operation = "insert" ->
         IF params.insertMode = "single" THEN ValueFails(params.document)
         ELSE ValueFails(params.documents) \/ NotArray(params.documents)
    [] operation = "update" -> ValueFails(params.filter) \/ ValueFails(params.update)
    [] operation = "delete" -> ValueFails(params.deleteFilter)
    [] operation = "aggregate" -> ValueFails(params.pipeline) \/ NotArray(params.pipeline)
    [] OTHER -> FALSE

\* C23: an item with a JSON field that does not parse, or with a documents or
\* pipeline value that is not an array, fails without a driver call and leaves
\* the collection as it was, also an update whose filter parses and whose
\* update text does not; the collection changes only in the step in which the
\* driver call of a parsed item returns.
C23_ParseBeforeExecute ==
  [][/\ (pc = "parse" /\ ParseFails =>
           /\ issued' = issued
           /\ cur' = NoCmd
           /\ pc' # "await"
           /\ store' = store
           /\ Len(outcomes') = Len(outcomes) + 1
           /\ ~outcomes'[Len(outcomes')].ok)
     /\ (store' # store =>
           /\ pc = "await"
           /\ parsed[Len(parsed)] = [item |-> idx, ok |-> TRUE])]_vars

C23_Witness ==
  /\ operation = "update" /\ continueOnFail /\ pc = "done"
  /\ parsed = <<[item |-> 1, ok |-> FALSE]>> /\ issued = <<>>
  /\ returned.main[1].json.errorMessage[1] = "Invalid update JSON: "
  /\ Len(store) = 2

\* the documents of the collection
Stored == {store[i] : i \in 1..Len(store)}

\* C24: a run that ends with an error returns no output batch, whatever the
\* items before the failing one pushed; a run that returns has had no error
\* travelling and returns one entry per item of itemsToProcess; the step in
\* which an item fails and the close leave the collection as the earlier
\* items wrote it, so that every document an insert of the run added is
\* still stored when the run has failed.
C24_FailFastKeepsWrites ==
  [][/\ (pc' = "failed" => returned' = NoOutput /\ raised' # NoError)
     /\ (pc' # "done" => returned' = NoOutput)
     /\ (pc' = "done" =>
           /\ thrown' = NoError /\ raised' = NoError
           /\ returned' = [main |-> results']
           /\ Len(returned'.main) = Len(itemsToProcess')
           /\ Len(outcomes') = Len(itemsToProcess'))
     /\ (thrown' # thrown \/ pc = "close" => store' = store /\ nextOid' = nextOid)
     /\ (pc' = "failed" /\ operation' = "insert" =>
           \A r \in inserted' : r.doc \in {store'[i] : i \in 1..Len(store')})]_vars

C24_Witness ==
  /\ pc = "failed" /\ ~continueOnFail /\ operation = "insert" /\ closeOutcome = "ok"
  /\ Len(itemsToProcess) = 2 /\ idx = 2
  /\ Len(outcomes) = 2 /\ outcomes[1].ok /\ ~outcomes[2].ok
  /\ Len(results) = 1 /\ returned = NoOutput /\ raised = thrown
  /\ inserted # {} /\ \A r \in inserted : r.doc \in Stored

C26_BuildersAgree ==
  /\ (~TestRejects(credentials) =>
        /\ ~BuildThrows(credentials)
        /\ TestConnectionString(credentials) = buildConnectionString(credentials))
  /\ (test.pc = "client" =>
        /\ ~TestRejects(credentials)
        /\ test.connectionString = buildConnectionString(credentials)
        /\ (lister.pc # "start" =>
              lister.pc = "client" /\ lister.connectionString = test.connectionString))

C26_Witness ==
  /\ BothBuilt
  /\ credentials.configurationType = "individual"
  /\ Truthy(credentials.user) /\ Truthy(credentials.password)
  /\ credentials.port = Undef /\ credentials.ssl
  /\ test.connectionString = lister.connectionString
  /\ test.connectionString[1] = "mongodb://"
  /\ Includes(test.connectionString, "?ssl=true")

\* C27: when every step that can be taken is eventually taken (every driver
\* call returns or raises), a batch run ends, and stays ended, at done with
\* the results returned or at failed with an error raised; when it has ended
\* after connect was called, close has been called and the client is closed;
\* the loop only moves forward: the position never decreases, an ended run
\* takes no step, and the items whose case was entered are 1, 2, ... in
\* order, each once.
C27_RunTerminates ==
  /\ <>[](pc \in {"done", "failed"})
  /\ [](/\ (pc = "done" => returned = [main |-> results] /\ raised = NoError)
        /\ (pc = "failed" => raised # NoError /\ returned = NoOutput)
        /\ (RunEnded /\ connectCalls >= 1 => closeCalls = 1 /\ client = "closed")
        /\ (\A i \in 1..Len(parsed) : parsed[i].item = i)
        /\ Len(parsed) <= Len(itemsToProcess))
  /\ [][/\ idx' >= idx
        /\ ~RunEnded
        /\ Len(parsed') >= Len(parsed)]_vars

C27_Witness ==
  /\ pc = "done" /\ continueOnFail /\ Len(itemsToProcess) = 2
  /\ connectCalls = 1 /\ closeCalls = 1 /\ client = "closed"
  /\ Len(parsed) = 2 /\ parsed[1].item = 1 /\ parsed[2].item = 2
  /\ ~outcomes[1].ok /\ Len(returned.main) = 2

====
